---- MODULE Spec2Model ----
(***************************************************************************)
(* The supervision tree of go.krak3n.io/foundation: the node type f, its   *)
(* Run/Parallel/On/Error handle, the stop() cascade, wait(), the event     *)
(* hooks and the top-level Run with its two watcher goroutines.            *)
(*                                                                         *)
(* Goroutines: main (thread 0, which calls run on the root, then wait),    *)
(* one body goroutine and one error forwarding goroutine per sub node,     *)
(* one goroutine a body may start to call Run on its handle (Helper),      *)
(* the error reading goroutine (errlog) and the signal goroutine (term).   *)
(* A second specification, SpecTicker, is the tick package's Runner on its  *)
(* own: its body goroutine, the goroutine that cancels its context and the  *)
(* goroutine that invokes the stop hook it registered.                      *)
(* sync.RWMutex is modelled with Go's writer preference: a Lock() that has *)
(* announced itself blocks every later RLock() until it has been released. *)
(* An unbuffered channel send is a rendezvous with the receiver.           *)
(***************************************************************************)
EXTENDS Integers, Sequences, FiniteSets, TLC

\* Bounds of the model.
MaxRuns == 2        \* Run calls made by the "simple" root runner
MaxHooks == 2       \* stop (and done) hooks registered by the "cleanup" worker
MaxUntil == 2       \* largest small limit given to tick.WithUntil
TickCap == 257      \* tick function executions followed in SpecTicker
MaxSensors == 3     \* longest list of sensors given to probe.Run

MaxNodes == MaxRuns + 2      \* sub nodes that can be allocated; never binds
Root == 0
Subs == 1..MaxNodes
Nodes == 0..MaxNodes
NoNode == -1
Helper == MaxNodes + 1       \* the goroutine a body starts with go f.Run(...)
Threads == 0..Helper

Rep(op, k) == [i \in 1..k |-> op]

(***************************************************************************)
(* Runner bodies: the inputs.  A body is a sequence of calls on its handle *)
(* f: <<"stop", kind>> is f.On().Stop(hook), <<"done", kind>> is           *)
(* f.On().Done(hook), <<"parallel", {}>> is f.Parallel(), <<"run", R>> is  *)
(* f.Run(ctx, r) for some runner r in R, <<"block", {}>> is <-c for a      *)
(* channel c that a "release" stop hook closes, <<"error", e>> is          *)
(* f.Error(e) with e "nil" or "err", <<"panic", {}>> is a panic raised in  *)
(* the body other than through f.Error, <<"go", {}>> is                    *)
(* go f.Run(ctx, r) on a goroutine of the body's own.                      *)
(* Hook kinds: "plain" returns, "release" closes c, "fault" panics,        *)
(* "error" calls f.Error(err) with err # nil, "up" is available = true and *)
(* "down" is available = false (the hooks of health.Run).                  *)
(*                                                                         *)
(* "simple", "parallel" (with "mid" and "worker") and "cleanup" are the    *)
(* programs of the README and of the examples; "tree" and "nested" run any *)
(* of the child runners, "nested" after promoting itself.  "health" is      *)
(* health.Run around one wrapped runner, "http" the server runner it       *)
(* starts first (c is closed by server.Shutdown, the block is              *)
(* ListenAndServe) and "marker" the runner it appends last.  "eager" calls *)
(* Parallel twice while a goroutine of its own calls it as well.           *)
(***************************************************************************)
ChildRunners == {"leaf", "worker"}
FaultyRunners == {"failing", "panicking", "late"}
HelperRunners == {"leaf"}
WrappedRunners == {"leaf", "erring"}

Runner(r) ==
  CASE r = "leaf"     -> << <<"stop", "plain">> >>
    [] r = "simple"   -> << <<"stop", "plain">> >> \o Rep(<<"run", {"leaf"}>>, MaxRuns)
    [] r = "worker"   -> << <<"parallel", {}>>, <<"stop", "release">>,
                            <<"done", "plain">>, <<"block", {}>> >>
    [] r = "mid"      -> << <<"done", "plain">>, <<"stop", "plain">>,
                            <<"run", {"worker"}>> >>
    [] r = "parallel" -> << <<"run", {"mid"}>>, <<"run", {"worker"}>> >>
    [] r = "cleaner"  -> << <<"parallel", {}>>, <<"stop", "release">> >>
                           \o Rep(<<"stop", "plain">>, MaxHooks - 1)
                           \o Rep(<<"done", "plain">>, MaxHooks)
                           \o << <<"block", {}>> >>
    [] r = "cleanup"  -> << <<"run", {"cleaner"}>> >>
    [] r = "tree"     -> << <<"stop", "plain">>, <<"run", ChildRunners>>,
                            <<"run", ChildRunners>> >>
    [] r = "nested"   -> << <<"parallel", {}>>, <<"run", ChildRunners>>,
                            <<"run", ChildRunners>> >>
    [] r = "faulty"   -> << <<"run", FaultyRunners>>, <<"run", {"leaf"}>> >>
    [] r = "failing"  -> << <<"stop", "fault">>, <<"done", "fault">>,
                            <<"done", "plain">>, <<"error", "nil">>,
                            <<"error", "err">> >>
    [] r = "panicking" -> << <<"panic", {}>> >>
    [] r = "late"     -> << <<"done", "error">> >>
    [] r = "racy"     -> << <<"go", {}>>, <<"run", {"leaf"}>> >>
    [] r = "eager"    -> << <<"go", {}>>, <<"parallel", {}>>, <<"parallel", {}>> >>
    [] r = "erring"   -> << <<"error", "err">> >>
    [] r = "http"     -> << <<"stop", "release">>, <<"parallel", {}>>,
                            <<"block", {}>> >>
    [] r = "marker"   -> << <<"stop", "down">> >>
    [] r = "health"   -> << <<"run", {"http"}>>, <<"done", "up">>,
                            <<"run", WrappedRunners>>, <<"run", {"marker"}>> >>
    [] r = "main"     -> << >>

RootRunners == {"simple", "parallel", "cleanup", "tree", "nested", "faulty",
                "racy", "eager", "health"}

VARIABLES
  pr,         \* one call of probe.Run and the handler ranging over it (SpecProbe)
  bo,         \* one evaluation of the exponential backoff (SpecBackoff)
  tk,         \* the tick Runner and its goroutines (SpecTicker)
  available,  \* health.Run's local: the handler answers 503 while FALSE
  rootRunner, \* the Runner given to foundation.Run
  nnodes,     \* number of sub nodes allocated by newf so far
  node,       \* the f structs, by allocation index; 0 is the root
  body,       \* per node: the goroutine running its Runner (0: main); Helper
  fwd,        \* per node: the goroutine forwarding sub.errC to parent.errC
  waitStack,  \* main's call stack of wait()
  term,       \* the goroutine that selects on done/errd/signal and calls stop()
  sup         \* Run's locals: done, errd, exitCode, the error reader, os.Exit

vars == <<pr, bo, tk, available, rootRunner, nnodes, node, body, fwd, waitStack, term, sup>>

\* newf (and the zero values of the struct's other fields).
newf(name, par, r) ==
  [ parent |-> par, name |-> name, prog |-> r, subs |-> << >>,
    erred |-> FALSE, faulted |-> FALSE, done |-> FALSE, stopped |-> FALSE, parallel |-> FALSE,
    signalC |-> FALSE, waitC |-> FALSE, errC |-> FALSE,  \* TRUE: closed
    parallelC |-> FALSE,
    rcount |-> 0, wpend |-> FALSE,                       \* mtx
    stopHooks |-> << >>, doneHooks |-> << >>,            \* hooks
    released |-> FALSE,                                  \* the body's channel c
    ran |-> << >> ]               \* history: the hooks invoked so far, in order
                                  \* (faulted: history, the body panicked)

\* A goroutine: f is the handle it calls Run on (its own node for a body).
NoBody == [pc |-> "idle", ip |-> 0, f |-> NoNode, sub |-> NoNode, pos |-> 0,
           k |-> 0, snap |-> 0]
NoFwd == [pc |-> "idle", err |-> << >>]

\* tick.NewRunner(fn, backoff, WithUntil(n)): stopped, no stop channel yet.
\* pc: the body goroutine, the goroutine invoking the node's stop hook (sig)
\* and the goroutine start() spawns to cancel the context.  closes and ticks
\* are history: the close(r.stopC) executed and the calls of r.fn.  stopOnce
\* and doneOnce are the fields of r.hooks; stopFns and doneFns count the
\* callbacks the handle has registered on the node, called is history: the
\* methods of the handle the tick function has called.
NewRunner(n) ==
  [ maxRunCount |-> n, runCount |-> 0, stopped |-> TRUE, stopC |-> "nil",
    mtx |-> "free", hook |-> FALSE, ctx |-> "live", count |-> 0,
    pc |-> [g \in {"body", "sig", "cancel"} |->
              IF g = "body" THEN "run" ELSE "idle"],
    ret |-> "", closes |-> 0, ticks |-> 0,
    stopOnce |-> FALSE, doneOnce |-> FALSE, stopFns |-> 0, doneFns |-> 0,
    called |-> {} ]

\* probe.Run(ctx, sensors...) as the handler calls it: ch is made, the outer
\* goroutine is started, the handler ranges over ch.  g and status are the
\* per-sensor goroutines and their local status; closes and reports are
\* history: the close(ch) executed and the statuses the handler received.
NewProbe(sensors) ==
  [ sensors |-> sensors, outer |-> "add", wg |-> 0, spawned |-> 0,
    g |-> [i \in 1..MaxSensors |-> "idle"],
    status |-> [i \in 1..MaxSensors |-> ""],
    closes |-> 0, panicked |-> FALSE,
    handler |-> "range", s |-> << >>, reports |-> << >>, code |-> 200 ]
\* No health request is being served.
NoProbe == [NewProbe(<< >>) EXCEPT !.outer = "idle", !.handler = "idle"]

\* No backoff is being evaluated.  exp and wait are machine words, written
\* as the set of the positions of their 1 bits.
NoBackoff == [pc |-> "idle", word |-> 64, attempt |-> 0, scalar |-> 0,
              exp |-> {}, wait |-> {}]

\* f := newf(name) and Run's locals.
InitTree ==
  /\ available = FALSE
  /\ nnodes = 0
  /\ node = [n \in Nodes |-> newf(<< >>, NoNode, IF n = Root THEN "main" ELSE "")]
  /\ body = [t \in Threads |->
               IF t = Root THEN [NoBody EXCEPT !.pc = "ops", !.ip = 1, !.f = Root]
                           ELSE NoBody]
  /\ fwd = [n \in Nodes |-> NoFwd]
  /\ waitStack = << >>
  /\ term = [pc |-> "select", cause |-> "", stack |-> << >>]
  /\ sup = [done |-> FALSE, errd |-> FALSE, exitCode |-> 0, errlog |-> "recv",
            logged |-> << >>, crashed |-> FALSE, panic |-> << << >>, NoNode >>,
            once |-> FALSE, finalised |-> << >>, exited |-> FALSE]

Init ==
  /\ rootRunner \in RootRunners
  /\ tk = NewRunner(0)
  /\ pr = NoProbe
  /\ bo = NoBackoff
  /\ InitTree

\* The process runs until os.Exit or an unrecovered panic.
Alive == ~sup.exited /\ ~sup.crashed

\* The goroutine started by the body of a runner r: it calls Parallel on
\* the handle ("eager") or Run.
HelperProg(r) == IF r = "eager" THEN << <<"parallel", {}>> >>
                 ELSE << <<"run", HelperRunners>> >>
\* The program of thread n: main calls f.Run(ctx, runner) on the root.
Prog(n) == IF n = Root THEN << <<"run", {rootRunner}>> >>
           ELSE IF n = Helper
                THEN IF body[n].f = NoNode THEN << >>
                     ELSE HelperProg(node[body[n].f].prog)
           ELSE Runner(node[n].prog)
Op(n) == Prog(n)[body[n].ip]
AtOp(n, o) == /\ body[n].pc = "ops"
              /\ body[n].ip <= Len(Prog(n))
              /\ Op(n)[1] = o
Advance(b) == [b EXCEPT !.pc = "ops", !.ip = @ + 1]

----------------------------------------------------------------------------
\* Channels.

\* A receiver is waiting on n.errC: the error reader for the root, the
\* forwarding goroutine of n otherwise.
Receiving(n) == IF n = Root THEN sup.errlog = "recv" ELSE fwd[n].pc = "recv"

\* A send on n.errC can complete (rendezvous) or panics (closed channel).
CanSend(n) == node[n].errC \/ Receiving(n)

\* The forwarding goroutines after err was sent on n.errC.
fwdAfterSend(f, n, err) ==
  IF node[n].errC \/ n = Root THEN f
  ELSE [f EXCEPT ![n] = [pc |-> "send", err |-> err]]

\* A sync.Once that never remembers (sensitivity variant of onceDone).
onceDone_Never(s) == FALSE

\* sync.Once: the function passed to once.Do has already been called.
onceDone(s) == s.once

\* Run's locals after err was sent on n.errC: the error reader logs it and
\* once.Do sets the exit code and closes errd; a send on a closed channel,
\* like the close of a closed channel, is an unrecovered panic (sup.panic
\* records the error, or <<"close", channel>>, and the node).
supAfterSend(s, n, err) ==
  IF node[n].errC THEN [s EXCEPT !.crashed = TRUE, !.panic = <<err, n>>]
  ELSE IF n = Root
  THEN IF onceDone(s) THEN [s EXCEPT !.logged = Append(@, err)]
       ELSE [s EXCEPT !.logged = Append(@, err), !.once = TRUE,
                      !.exitCode = 1, !.errd = TRUE,
                      !.crashed = s.errd,
                      !.panic = IF s.errd THEN << <<"close", "errd">>, NoNode >>
                                ELSE @]
  ELSE s

----------------------------------------------------------------------------
\* eventHooks.add through On().Stop / On().Done.
On_Stop(n) ==
  /\ Alive
  /\ AtOp(n, "stop")
  /\ node' = [node EXCEPT ![n].stopHooks = Append(@, Op(n)[2])]
  /\ body' = [body EXCEPT ![n] = Advance(@)]
  /\ UNCHANGED <<pr, bo, tk, available, rootRunner, nnodes, fwd, waitStack, term, sup>>

On_Done(n) ==
  /\ Alive
  /\ AtOp(n, "done")
  /\ node' = [node EXCEPT ![n].doneHooks = Append(@, Op(n)[2])]
  /\ body' = [body EXCEPT ![n] = Advance(@)]
  /\ UNCHANGED <<pr, bo, tk, available, rootRunner, nnodes, fwd, waitStack, term, sup>>

\* f.Parallel, called by goroutine t on its handle: Lock announces itself,
\* then waits for the readers to leave.
Parallel_Lock(t) ==
  /\ Alive
  /\ AtOp(t, "parallel")
  /\ ~node[body[t].f].wpend
  /\ node' = [node EXCEPT ![body[t].f].wpend = TRUE]
  /\ body' = [body EXCEPT ![t].pc = "parallel"]
  /\ UNCHANGED <<pr, bo, tk, available, rootRunner, nnodes, fwd, waitStack, term, sup>>

\* A check that never finds the flag set (sensitivity variant of
\* alreadyParallel).
alreadyParallel_Never(n) == FALSE

\* if f.parallel { return }
alreadyParallel(n) == node[n].parallel

\* close(f.parallelC); f.parallel = true, unless already parallel; Unlock.
Parallel(t) ==
  /\ Alive
  /\ body[t].pc = "parallel"
  /\ LET n == body[t].f IN
     /\ node[n].rcount = 0
     /\ node' = IF alreadyParallel(n) THEN [node EXCEPT ![n].wpend = FALSE]
                ELSE [node EXCEPT ![n].parallel = TRUE, ![n].parallelC = TRUE,
                                  ![n].wpend = FALSE]
     /\ sup' = IF ~alreadyParallel(n) /\ node[n].parallelC
               THEN [sup EXCEPT !.crashed = TRUE,
                                !.panic = << <<"close", "parallelC">>, n >>]
               ELSE sup
  /\ body' = [body EXCEPT ![t] = Advance(@)]
  /\ UNCHANGED <<pr, bo, tk, available, rootRunner, nnodes, fwd, waitStack, term>>

\* The body blocks on its channel c until a stop hook has closed it.
Block(n) ==
  /\ Alive
  /\ AtOp(n, "block")
  /\ node[n].released
  /\ body' = [body EXCEPT ![n] = Advance(@)]
  /\ UNCHANGED <<pr, bo, tk, available, rootRunner, nnodes, node, fwd, waitStack, term, sup>>

----------------------------------------------------------------------------
\* go f.Run(ctx, r): the body of n starts a goroutine that calls Run on n.
Go(n) ==
  /\ Alive
  /\ AtOp(n, "go")
  /\ body[Helper].pc = "idle"
  /\ body' = [body EXCEPT ![n] = Advance(@),
                          ![Helper] = [NoBody EXCEPT !.pc = "ops", !.ip = 1, !.f = n]]
  /\ UNCHANGED <<pr, bo, tk, available, rootRunner, nnodes, node, fwd, waitStack, term, sup>>

----------------------------------------------------------------------------
\* f.run, called by goroutine t on its handle body[t].f.

\* The guard of f.run: erred or done refuses the runner.
runRefused(n) == node[n].erred \/ node[n].done

run_Check(t) ==
  /\ Alive
  /\ AtOp(t, "run")
  /\ body' = [body EXCEPT ![t] = IF runRefused(body[t].f) THEN Advance(@)
                                 ELSE [@ EXCEPT !.pc = "run_name"]]
  /\ UNCHANGED <<pr, bo, tk, available, rootRunner, nnodes, node, fwd, waitStack, term, sup>>

\* name := fmt.Sprintf("%s.%d", f.name, len(f.subs)+1), under the read lock.
run_Name(t) ==
  /\ Alive
  /\ body[t].pc = "run_name"
  /\ ~node[body[t].f].wpend
  /\ body' = [body EXCEPT ![t].pc = "run_newf",
                          ![t].pos = Len(node[body[t].f].subs) + 1]
  /\ UNCHANGED <<pr, bo, tk, available, rootRunner, nnodes, node, fwd, waitStack, term, sup>>

\* sub := newf(name); the forwarding goroutine starts; f.mtx.Lock() announces.
run_Newf(t) ==
  /\ Alive
  /\ body[t].pc = "run_newf"
  /\ ~node[body[t].f].wpend
  /\ nnodes < MaxNodes
  /\ \E r \in Op(t)[2] : LET s == nnodes + 1
                             n == body[t].f IN
     /\ nnodes' = s
     /\ node' = [node EXCEPT
                   ![s] = newf(Append(node[n].name, body[t].pos), n, r),
                   ![n].wpend = TRUE]
     /\ fwd' = [fwd EXCEPT ![s].pc = "recv"]
     /\ body' = [body EXCEPT ![t].pc = "run_append", ![t].sub = s]
  /\ UNCHANGED <<pr, bo, tk, available, rootRunner, waitStack, term, sup>>

\* f.subs = append(f.subs, sub) under the write lock, then go wrapped().
run_Append(t) ==
  /\ Alive
  /\ body[t].pc = "run_append"
  /\ node[body[t].f].rcount = 0
  /\ node' = [node EXCEPT ![body[t].f].subs = Append(@, body[t].sub),
                          ![body[t].f].wpend = FALSE]
  /\ body' = [body EXCEPT ![t].pc = "run_select",
                          ![body[t].sub] = [NoBody EXCEPT !.pc = "ops", !.ip = 1,
                                                          !.f = body[t].sub]]
  /\ UNCHANGED <<pr, bo, tk, available, rootRunner, nnodes, fwd, waitStack, term, sup>>

\* A select that does not wait for either channel (sensitivity variant of
\* selectReady).
selectReady_NoWait(s) == TRUE

\* select { case <-waitC: case <-sub.parallelC: }
selectReady(s) == node[s].waitC \/ node[s].parallelC

run_Select(t) ==
  /\ Alive
  /\ body[t].pc = "run_select"
  /\ selectReady(body[t].sub)
  /\ body' = [body EXCEPT ![t] = Advance(@)]
  /\ UNCHANGED <<pr, bo, tk, available, rootRunner, nnodes, node, fwd, waitStack, term, sup>>

----------------------------------------------------------------------------
\* f.Error(err): no-op when done or when err is nil, else erred is stored on
\* the node and then on each ancestor in turn, and panic(err) unwinds to the
\* wrapper.
Error_Store(n) ==
  /\ Alive
  /\ AtOp(n, "error")
  /\ IF node[n].done \/ Op(n)[2] = "nil"
     THEN /\ body' = [body EXCEPT ![n] = Advance(@)]
          /\ UNCHANGED node
     ELSE /\ node' = [node EXCEPT ![n].erred = TRUE]
          /\ body' = [body EXCEPT ![n].pc = "error", ![n].sub = node[n].parent]
  /\ UNCHANGED <<pr, bo, tk, available, rootRunner, nnodes, fwd, waitStack, term, sup>>

\* A walk that ends at the first parent (sensitivity variant of nextParent).
nextParent_None(p) == NoNode

\* parent = parent.parent
nextParent(p) == node[p].parent

Error_Parent(n) ==
  /\ Alive
  /\ body[n].pc = "error"
  /\ IF body[n].sub = NoNode
     THEN /\ body' = [body EXCEPT ![n].pc = "recovered"]
          /\ node' = [node EXCEPT ![n].faulted = TRUE]
     ELSE /\ node' = [node EXCEPT ![body[n].sub].erred = TRUE]
          /\ body' = [body EXCEPT ![n].sub = nextParent(body[n].sub)]
  /\ UNCHANGED <<pr, bo, tk, available, rootRunner, nnodes, fwd, waitStack, term, sup>>

\* A panic in the body that is not raised by f.Error unwinds to the wrapper.
Panic(n) ==
  /\ Alive
  /\ AtOp(n, "panic")
  /\ node' = [node EXCEPT ![n].faulted = TRUE]
  /\ body' = [body EXCEPT ![n].pc = "recovered"]
  /\ UNCHANGED <<pr, bo, tk, available, rootRunner, nnodes, fwd, waitStack, term, sup>>

\* The erred flags after f.Error(err), err # nil, called on n from a hook:
\* none when done, else n and every ancestor.
RECURSIVE chain(_)
chain(n) == IF n = NoNode THEN {} ELSE {n} \cup chain(nextParent(n))
erredAfterError(n) ==
  [m \in Nodes |-> node[m].erred \/ (~node[n].done /\ m \in chain(n))]

----------------------------------------------------------------------------
\* The wrapper's deferred function.

\* recover() # nil: sub.errC <- RuntimeError{...}
wrapped_Recover(n) ==
  /\ Alive
  /\ body[n].pc = "recovered"
  /\ CanSend(n)
  /\ fwd' = fwdAfterSend(fwd, n, <<"RuntimeError", n>>)
  /\ sup' = supAfterSend(sup, n, <<"RuntimeError", n>>)
  /\ body' = [body EXCEPT ![n].pc = "returned"]
  /\ UNCHANGED <<pr, bo, tk, available, rootRunner, nnodes, node, waitStack, term>>

\* runner.Run returned: the deferred function takes sub.mtx.Lock().
wrapped_Lock(n) ==
  /\ Alive
  /\ n # Root
  /\ \/ body[n].pc = "returned"
     \/ body[n].pc = "ops" /\ body[n].ip > Len(Prog(n))
  /\ ~node[n].wpend
  /\ node' = [node EXCEPT ![n].wpend = TRUE]
  /\ body' = [body EXCEPT ![n].pc = "closing"]
  /\ UNCHANGED <<pr, bo, tk, available, rootRunner, nnodes, fwd, waitStack, term, sup>>

\* A lookup that returns the other event's slice (sensitivity variant of get).
get_OtherEvent(n, event) ==
  IF event = "stop" THEN node[n].doneHooks ELSE node[n].stopHooks

\* eventHooks.get: the slice registered for the event, as it is now.
get(n, event) == IF event = "stop" THEN node[n].stopHooks ELSE node[n].doneHooks

\* The hooks f.runEventHooks iterates: the slice f.hooks.get returned, in
\* slices.Values order.
hookOrder(hooks) == hooks

\* The wrapper after k of snap done hooks have run: the goroutine ends after
\* the last one.
HooksPc(k, snap) == IF k < snap THEN "done_hooks" ELSE "exit"

\* if !done { close(signalC) }; Unlock; close(waitC); runEventHooks(doneEvent)
\* takes the done hooks registered so far.
wrapped_Close(n) ==
  /\ Alive
  /\ body[n].pc = "closing"
  /\ node[n].rcount = 0
  /\ node' = [node EXCEPT ![n].wpend = FALSE, ![n].waitC = TRUE,
                          ![n].signalC = IF node[n].done THEN @ ELSE TRUE]
  /\ sup' = IF ~node[n].done /\ node[n].signalC
            THEN [sup EXCEPT !.crashed = TRUE,
                             !.panic = << <<"close", "signalC">>, n >>]
            ELSE sup
  /\ body' = [body EXCEPT ![n].pc = HooksPc(0, Len(get(n, "done"))),
                          ![n].k = 1, ![n].snap = Len(get(n, "done"))]
  /\ UNCHANGED <<pr, bo, tk, available, rootRunner, nnodes, fwd, waitStack, term>>

\* hook() panics: a "fault" hook, or f.Error(err) called in it while not done.
hookFaults(n, kind) == kind = "fault" \/ (kind = "error" /\ ~node[n].done)

\* The nodes after hook i of the event's list was invoked on n.
afterHook(n, event, i, kind) ==
  [m \in Nodes |->
     [node[m] EXCEPT
        !.erred = IF kind = "error" THEN erredAfterError(n)[m] ELSE @,
        !.ran = IF m = n THEN Append(@, <<event, i>>) ELSE @,
        !.released = IF m = n THEN @ \/ kind = "release" ELSE @]]

\* health.Run's flag after a hook of the given kind has run.
availableAfterHook(kind) ==
  IF kind = "up" THEN TRUE ELSE IF kind = "down" THEN FALSE ELSE available

\* runEventHook(hook) for the next done hook; a panic in it is recovered.
done_Hook(n) ==
  /\ Alive
  /\ body[n].pc = "done_hooks"
  /\ body[n].k <= body[n].snap
  /\ LET i == hookOrder([j \in 1..body[n].snap |-> j])[body[n].k]
         kind == get(n, "done")[i] IN
     /\ node' = afterHook(n, "done", i, kind)
     /\ available' = availableAfterHook(kind)
     /\ body' = [body EXCEPT ![n].pc = IF hookFaults(n, kind) THEN "done_send"
                                       ELSE HooksPc(body[n].k, body[n].snap),
                             ![n].k = @ + 1]
  /\ UNCHANGED <<pr, bo, tk, rootRunner, nnodes, fwd, waitStack, term, sup>>

\* f.errC <- CleanupError{...} from a done hook.
done_Send(n) ==
  /\ Alive
  /\ body[n].pc = "done_send"
  /\ CanSend(n)
  /\ fwd' = fwdAfterSend(fwd, n, <<"CleanupError", n>>)
  /\ sup' = supAfterSend(sup, n, <<"CleanupError", n>>)
  /\ body' = [body EXCEPT ![n].pc = HooksPc(body[n].k - 1, body[n].snap)]
  /\ UNCHANGED <<pr, bo, tk, available, rootRunner, nnodes, node, waitStack, term>>

----------------------------------------------------------------------------
\* The forwarding goroutine of sub node n: f.errC <- err, and exit on close.
forward_Send(n) ==
  /\ Alive
  /\ fwd[n].pc = "send"
  /\ CanSend(node[n].parent)
  /\ fwd' = [fwdAfterSend(fwd, node[n].parent, fwd[n].err) EXCEPT
               ![n] = [pc |-> "recv", err |-> << >>]]
  /\ sup' = supAfterSend(sup, node[n].parent, fwd[n].err)
  /\ UNCHANGED <<pr, bo, tk, available, rootRunner, nnodes, node, body, waitStack, term>>

forward_Exit(n) ==
  /\ Alive
  /\ fwd[n].pc = "recv"
  /\ node[n].errC
  /\ fwd' = [fwd EXCEPT ![n].pc = "exit"]
  /\ UNCHANGED <<pr, bo, tk, available, rootRunner, nnodes, node, body, waitStack, term, sup>>

\* The error reading goroutine of Run returns when f.errC is closed.
errlog_Exit ==
  /\ Alive
  /\ sup.errlog = "recv"
  /\ node[Root].errC
  /\ sup' = [sup EXCEPT !.errlog = "exit"]
  /\ UNCHANGED <<pr, bo, tk, available, rootRunner, nnodes, node, body, fwd, waitStack, term>>

----------------------------------------------------------------------------
\* f.stop(), run by the signal goroutine; term.stack is its call stack.

\* Visiting f.subs oldest first (sensitivity variant of stopOrder).
stopOrder_OldestFirst(subs) == subs

\* The order in which stop() visits f.subs: for i := len(f.subs) - 1; i >= 0.
stopOrder(subs) == [i \in 1..Len(subs) |-> subs[Len(subs) + 1 - i]]

Frame(n) == [n |-> n, phase |-> "store", i |-> 0, k |-> 0, snap |-> 0]
Top(stack) == stack[Len(stack)]
SetTop(stack, fr) == [stack EXCEPT ![Len(stack)] = fr]
Stopping(ph) == /\ term.pc = "stop"
                /\ term.stack # << >>
                /\ Top(term.stack).phase = ph

\* select { case <-done: case <-errd: case sig := <-ch: }, then f.stop().
\* The signal is an input: it can arrive at any moment.
term_Select ==
  /\ Alive
  /\ term.pc = "select"
  /\ \E cause \in {"done", "errd", "signal"} :
       /\ cause = "done" => sup.done
       /\ cause = "errd" => sup.errd
       /\ term' = [pc |-> "stop", cause |-> cause, stack |-> << Frame(Root) >>]
  /\ UNCHANGED <<pr, bo, tk, available, rootRunner, nnodes, node, body, fwd, waitStack, sup>>

\* f.stopped.Store(true)
stop_Store ==
  /\ Alive
  /\ Stopping("store")
  /\ LET fr == Top(term.stack) IN
     /\ node' = [node EXCEPT ![fr.n].stopped = TRUE]
     /\ term' = [term EXCEPT !.stack = SetTop(@, [fr EXCEPT !.phase = "lock"])]
  /\ UNCHANGED <<pr, bo, tk, available, rootRunner, nnodes, body, fwd, waitStack, sup>>

\* f.mtx.RLock()
stop_RLock ==
  /\ Alive
  /\ Stopping("lock")
  /\ LET fr == Top(term.stack) IN
     /\ ~node[fr.n].wpend
     /\ node' = [node EXCEPT ![fr.n].rcount = @ + 1]
     /\ term' = [term EXCEPT !.stack = SetTop(@, [fr EXCEPT !.phase = "subs", !.i = 1])]
  /\ UNCHANGED <<pr, bo, tk, available, rootRunner, nnodes, body, fwd, waitStack, sup>>

\* f.subs[i].stop() for the next sub; after the last, RUnlock and
\* runEventHooks(stopEvent) takes the stop hooks registered so far.
stop_Subs ==
  /\ Alive
  /\ Stopping("subs")
  /\ LET fr == Top(term.stack)
         order == stopOrder(node[fr.n].subs) IN
     IF fr.i <= Len(order)
     THEN /\ term' = [term EXCEPT !.stack = Append(@, Frame(order[fr.i]))]
          /\ UNCHANGED node
     ELSE /\ node' = [node EXCEPT ![fr.n].rcount = @ - 1]
          /\ term' = [term EXCEPT !.stack = SetTop(@,
                        [fr EXCEPT !.phase = "hooks", !.k = 1,
                                   !.snap = Len(get(fr.n, "stop"))])]
  /\ UNCHANGED <<pr, bo, tk, available, rootRunner, nnodes, body, fwd, waitStack, sup>>

\* runEventHook(hook) for the next stop hook; a panic in it is recovered.
stop_Hook ==
  /\ Alive
  /\ Stopping("hooks")
  /\ LET fr == Top(term.stack)
         i == hookOrder([j \in 1..fr.snap |-> j])[fr.k]
         kind == get(fr.n, "stop")[i] IN
     /\ fr.k <= fr.snap
     /\ node' = afterHook(fr.n, "stop", i, kind)
     /\ available' = availableAfterHook(kind)
     /\ term' = [term EXCEPT !.stack = SetTop(@,
                   [fr EXCEPT !.k = @ + 1,
                              !.phase = IF hookFaults(fr.n, kind) THEN "send"
                                        ELSE "hooks"])]
  /\ UNCHANGED <<pr, bo, tk, rootRunner, nnodes, body, fwd, waitStack, sup>>

\* f.errC <- CleanupError{...} from a stop hook.
stop_Send ==
  /\ Alive
  /\ Stopping("send")
  /\ LET fr == Top(term.stack) IN
     /\ CanSend(fr.n)
     /\ fwd' = fwdAfterSend(fwd, fr.n, <<"CleanupError", fr.n>>)
     /\ sup' = supAfterSend(sup, fr.n, <<"CleanupError", fr.n>>)
     /\ term' = [term EXCEPT !.stack = SetTop(@, [fr EXCEPT !.phase = "hooks"])]
  /\ UNCHANGED <<pr, bo, tk, available, rootRunner, nnodes, node, body, waitStack>>

\* A stop() that does not wait for the signal (sensitivity variant of
\* signalObserved).
signalObserved_NoWait(n) == TRUE

\* <-f.signalC returns: the channel has been closed.
signalObserved(n) == node[n].signalC

\* <-f.signalC, then close(f.errC).
stop_Close ==
  /\ Alive
  /\ Stopping("hooks")
  /\ LET fr == Top(term.stack) IN
     /\ fr.k > fr.snap
     /\ signalObserved(fr.n)
     /\ node' = [node EXCEPT ![fr.n].errC = TRUE]
     /\ sup' = IF node[fr.n].errC
               THEN [sup EXCEPT !.crashed = TRUE,
                                !.panic = << <<"close", "errC">>, fr.n >>]
               ELSE sup
     /\ term' = [term EXCEPT !.stack = SetTop(@, [fr EXCEPT !.phase = "join"])]
  /\ UNCHANGED <<pr, bo, tk, available, rootRunner, nnodes, body, fwd, waitStack>>

\* A signal goroutine that selects again after f.stop() returned
\* (sensitivity variant of afterStop).
afterStop_SelectAgain(t, rest) ==
  IF rest = << >> THEN [t EXCEPT !.pc = "select", !.stack = << >>]
  ELSE [t EXCEPT !.stack = SetTop(rest, [Top(rest) EXCEPT !.i = @ + 1])]

\* stop() returns: to the loop of the caller's stop(), or to the signal
\* goroutine, whose function ends with the call.
afterStop(t, rest) ==
  IF rest = << >> THEN [t EXCEPT !.pc = "exit", !.stack = << >>]
  ELSE [t EXCEPT !.stack = SetTop(rest, [Top(rest) EXCEPT !.i = @ + 1])]

\* f.wg.Wait(), f.done.Store(true), return to the caller's loop (or to the
\* signal goroutine, which then returns).
stop_Done ==
  /\ Alive
  /\ Stopping("join")
  /\ LET fr == Top(term.stack)
         rest == SubSeq(term.stack, 1, Len(term.stack) - 1) IN
     /\ fr.n = Root \/ fwd[fr.n].pc = "exit"
     /\ node' = [node EXCEPT ![fr.n].done = TRUE]
     /\ term' = afterStop(term, rest)
  /\ UNCHANGED <<pr, bo, tk, available, rootRunner, nnodes, body, fwd, waitStack, sup>>

----------------------------------------------------------------------------
\* f.wait(), run by main after f.Run returned; waitStack is its call stack.

WFrame(n) == [n |-> n, phase |-> "lock", i |-> 0]
Waiting(ph) == /\ body[Root].pc = "wait"
               /\ waitStack # << >>
               /\ Top(waitStack).phase = ph

\* f.Run(ctx, runner) returned: <-f.wait()
main_Wait ==
  /\ Alive
  /\ body[Root].pc = "ops"
  /\ body[Root].ip > Len(Prog(Root))
  /\ body' = [body EXCEPT ![Root].pc = "wait"]
  /\ waitStack' = << WFrame(Root) >>
  /\ UNCHANGED <<pr, bo, tk, available, rootRunner, nnodes, node, fwd, term, sup>>

\* f.mtx.RLock()
wait_RLock ==
  /\ Alive
  /\ Waiting("lock")
  /\ LET fr == Top(waitStack) IN
     /\ ~node[fr.n].wpend
     /\ node' = [node EXCEPT ![fr.n].rcount = @ + 1]
     /\ waitStack' = SetTop(waitStack, [fr EXCEPT !.phase = "subs", !.i = 1])
  /\ UNCHANGED <<pr, bo, tk, available, rootRunner, nnodes, body, fwd, term, sup>>

\* A wait() that closes the signal of every node (sensitivity variant of
\* isRoot).
isRoot_Any(n) == TRUE

\* if f.parent == nil
isRoot(n) == node[n].parent = NoNode

\* <-f.subs[i].wait() for the next sub; after the last, RUnlock and, for the
\* root, close(f.signalC).
wait_Subs ==
  /\ Alive
  /\ Waiting("subs")
  /\ LET fr == Top(waitStack) IN
     IF fr.i <= Len(node[fr.n].subs)
     THEN /\ waitStack' = Append(waitStack, WFrame(node[fr.n].subs[fr.i]))
          /\ UNCHANGED <<node, sup>>
     ELSE /\ node' = [node EXCEPT ![fr.n].rcount = @ - 1,
                                  ![fr.n].signalC = @ \/ isRoot(fr.n)]
          /\ sup' = IF isRoot(fr.n) /\ node[fr.n].signalC
                    THEN [sup EXCEPT !.crashed = TRUE,
                                     !.panic = << <<"close", "signalC">>, fr.n >>]
                    ELSE sup
          /\ waitStack' = SetTop(waitStack, [fr EXCEPT !.phase = "signal"])
  /\ UNCHANGED <<pr, bo, tk, available, rootRunner, nnodes, body, fwd, term>>

\* <-f.signalC, close(ch), return; back in Run: close(done).
wait_Signal ==
  /\ Alive
  /\ Waiting("signal")
  /\ LET fr == Top(waitStack)
         rest == SubSeq(waitStack, 1, Len(waitStack) - 1) IN
     /\ node[fr.n].signalC
     /\ IF rest = << >>
        THEN /\ waitStack' = << >>
             /\ body' = [body EXCEPT ![Root].pc = "join"]
             /\ sup' = [sup EXCEPT !.done = TRUE]
        ELSE /\ waitStack' = SetTop(rest, [Top(rest) EXCEPT !.i = @ + 1])
             /\ UNCHANGED <<body, sup>>
  /\ UNCHANGED <<pr, bo, tk, available, rootRunner, nnodes, node, fwd, term>>

\* The lists f.finalisers can hold: callbacks that return nil or an error.
Finalisers == {<< >>, <<"nil">>, <<"err", "nil">>}

\* An exit code the finalisers do not touch (sensitivity variant of
\* afterFinalisers).
afterFinalisers_Ignored(code, fin) == code

\* for _, fn := range f.finalisers { if err := fn(); err != nil { exitCode = 1 } }
afterFinalisers(code, fin) ==
  IF \E i \in 1..Len(fin) : fin[i] = "err" THEN 1 ELSE code

\* wg.Wait() for the two goroutines, the finalisers, os.Exit(exitCode).
main_Exit ==
  /\ Alive
  /\ body[Root].pc = "join"
  /\ term.pc = "exit"
  /\ sup.errlog = "exit"
  /\ body' = [body EXCEPT ![Root].pc = "exit"]
  /\ \E fin \in Finalisers :
       sup' = [sup EXCEPT !.exited = TRUE, !.finalised = fin,
                          !.exitCode = afterFinalisers(@, fin)]
  /\ UNCHANGED <<pr, bo, tk, available, rootRunner, nnodes, node, fwd, waitStack, term>>

----------------------------------------------------------------------------
\* Every step but the signal goroutine's select.
Internal ==
     \/ \E t \in Threads :
          \/ run_Check(t) \/ run_Name(t) \/ run_Newf(t) \/ run_Append(t)
          \/ run_Select(t) \/ Parallel_Lock(t) \/ Parallel(t)
     \/ \E n \in Nodes :
          \/ On_Stop(n) \/ On_Done(n)
          \/ Block(n) \/ Go(n)
          \/ Error_Store(n) \/ Error_Parent(n) \/ Panic(n)
          \/ wrapped_Recover(n) \/ wrapped_Lock(n) \/ wrapped_Close(n)
          \/ done_Hook(n) \/ done_Send(n)
          \/ forward_Send(n) \/ forward_Exit(n)
     \/ errlog_Exit
     \/ stop_Store \/ stop_RLock \/ stop_Subs \/ stop_Hook \/ stop_Send
     \/ stop_Close \/ stop_Done
     \/ main_Wait \/ wait_RLock \/ wait_Subs \/ wait_Signal \/ main_Exit

Next == Internal \/ term_Select

Spec == Init /\ [][Next]_vars

----------------------------------------------------------------------------
(***************************************************************************)
(* The tick package's Runner.  Three goroutines: "body" runs Runner.Run    *)
(* (and in it start, the tick function and the deferred Stop), "sig" is    *)
(* the goroutine whose stop cascade invokes the stop hook Runner.Run       *)
(* registered (the hook calls r.Stop()), "cancel" waits for r.stopC and    *)
(* cancels the context.  r.mtx is "held" for good after a panic between    *)
(* Lock and Unlock; every other critical section is one step.  count,      *)
(* runCount and maxRunCount are uint8.                                     *)
(***************************************************************************)
MaxUint8 == 255
UntilValues == {1, MaxUntil, MaxUint8}

treeVars == <<available, rootRunner, nnodes, node, body, fwd, waitStack, term,
              sup>>

InitTicker ==
  /\ tk \in {NewRunner(n) : n \in UntilValues}
  /\ pr = NoProbe
  /\ bo = NoBackoff
  /\ rootRunner = "simple"
  /\ InitTree

\* The goroutine g moves to pc.
TickGoto(t, g, pc) == [t EXCEPT !.pc[g] = pc]

\* Runner.Run: f.Parallel(); f.On().Stop(func() { r.Stop() }); r.f = f.
tick_Run ==
  /\ tk.pc["body"] = "run"
  /\ tk.mtx = "free"
  /\ tk' = [TickGoto(tk, "body", "start") EXCEPT !.hook = TRUE]
  /\ UNCHANGED <<pr, bo, treeVars>>

\* start: if !r.stopped { return }
start_Check ==
  /\ tk.pc["body"] = "start"
  /\ tk.mtx = "free"
  /\ tk' = TickGoto(tk, "body", IF tk.stopped THEN "init" ELSE "returned")
  /\ UNCHANGED <<pr, bo, treeVars>>

\* r.stopC = make(chan struct{}); r.stopped = false; the goroutine that
\* cancels the context is started and the deferred r.Stop() registered.
start_Init ==
  /\ tk.pc["body"] = "init"
  /\ tk.mtx = "free"
  /\ tk' = [TickGoto(TickGoto(tk, "body", "loop"), "cancel", "wait") EXCEPT
              !.stopC = "open", !.stopped = FALSE]
  /\ UNCHANGED <<pr, bo, treeVars>>

\* go func() { <-r.stopC; cancel() }()
start_Cancel ==
  /\ tk.pc["cancel"] = "wait"
  /\ tk.stopC = "closed"
  /\ tk' = [TickGoto(tk, "cancel", "exit") EXCEPT !.ctx = "cancelled"]
  /\ UNCHANGED <<pr, bo, treeVars>>

\* select { case <-ctx.Done(): return; default: ... }
start_Select ==
  /\ tk.pc["body"] = "loop"
  /\ tk' = TickGoto(tk, "body", IF tk.ctx = "cancelled" THEN "defer" ELSE "count")
  /\ UNCHANGED <<pr, bo, treeVars>>

\* count := r.runCount + 1, in uint8.
nextCount(runCount) == (runCount + 1) % (MaxUint8 + 1)

\* if r.maxRunCount > 0 { if count > r.maxRunCount { return } }
limitReached(count, maxRunCount) == maxRunCount > 0 /\ count > maxRunCount

start_Count ==
  /\ tk.pc["body"] = "count"
  /\ tk.mtx = "free"
  /\ LET count == nextCount(tk.runCount) IN
     tk' = [TickGoto(tk, "body", IF limitReached(count, tk.maxRunCount)
                                 THEN "defer" ELSE "wait")
              EXCEPT !.count = count]
  /\ UNCHANGED <<pr, bo, treeVars>>

\* wait(ctx, count, r.backoff): nil when the timer fires (or there is
\* nothing to wait for), ctx.Err() when the context is done first.
start_Wait ==
  /\ tk.pc["body"] = "wait"
  /\ \E err \in {"nil", "ctx"} :
       /\ err = "ctx" => tk.ctx = "cancelled"
       /\ tk' = TickGoto(tk, "body", IF err = "nil" THEN "tick" ELSE "defer")
  /\ UNCHANGED <<pr, bo, treeVars>>

\* r.tick = time.Now(); r.runCount = count
start_Tick ==
  /\ tk.pc["body"] = "tick"
  /\ tk.mtx = "free"
  /\ tk' = [TickGoto(tk, "body", "fn") EXCEPT !.runCount = tk.count]
  /\ UNCHANGED <<pr, bo, treeVars>>

\* eventHooks.Stop(fn): e.stopOnce.Do(func() { e.f.On().Stop(fn) }).
eventHooks_Stop(t) ==
  IF t.stopOnce THEN [t EXCEPT !.called = @ \cup {"Stop"}]
  ELSE [t EXCEPT !.stopOnce = TRUE, !.stopFns = @ + 1,
                 !.called = @ \cup {"Stop"}]

\* eventHooks.Done(fn): e.stopOnce.Do(func() { e.f.On().Done(fn) }).
eventHooks_Done(t) ==
  IF t.stopOnce THEN [t EXCEPT !.called = @ \cup {"Done"}]
  ELSE [t EXCEPT !.stopOnce = TRUE, !.doneFns = @ + 1,
                 !.called = @ \cup {"Done"}]

\* The calls t.On().Stop(fn) and t.On().Done(fn) a tick function makes, in
\* order.
TickFns == {<< >>, <<"Stop">>, <<"Done">>, <<"Stop", "Done">>, <<"Done", "Stop">>}

RECURSIVE afterCalls(_, _)
afterCalls(t, calls) ==
  IF calls = << >> THEN t
  ELSE afterCalls(IF Head(calls) = "Stop" THEN eventHooks_Stop(t)
                  ELSE eventHooks_Done(t), Tail(calls))

\* r.fn(ctx, r): the tick function registers hooks through r.On() (which
\* takes the read lock), then returns, or calls ticker.Stop() first.
start_Fn ==
  /\ tk.pc["body"] = "fn"
  /\ tk.ticks < TickCap
  /\ \E stops \in BOOLEAN, calls \in TickFns :
       /\ calls # << >> => tk.mtx = "free"
       /\ tk' = [TickGoto(afterCalls(tk, calls), "body",
                           IF stops THEN "stop" ELSE "loop") EXCEPT
                   !.ticks = @ + 1, !.ret = IF stops THEN "loop" ELSE @]
  /\ UNCHANGED <<pr, bo, treeVars>>

\* start returns (or unwinds): the deferred function calls r.Stop().
start_Defer ==
  /\ tk.pc["body"] = "defer"
  /\ tk' = [TickGoto(tk, "body", "stop") EXCEPT !.ret = "returned"]
  /\ UNCHANGED <<pr, bo, treeVars>>

\* stop() of the node runs its stop hooks: the hook calls r.Stop().
hook_Invoke ==
  /\ tk.pc["sig"] = "idle"
  /\ tk.hook
  /\ tk' = TickGoto(tk, "sig", "stop")
  /\ UNCHANGED <<pr, bo, treeVars>>

\* Where Stop returns to: the tick loop or the end of the body; the hook
\* returns into the stop cascade.
StopReturn(g) == IF g = "body" THEN tk.ret ELSE "exit"

\* Where a panic in Stop takes g: in the tick function it unwinds into the
\* deferred Stop, in the deferred Stop into the wrapper of the body, in the
\* hook into runEventHook, each of which recovers.
StopPanic(g) == IF g = "body" /\ tk.ret = "loop" THEN "defer" ELSE "panicked"

\* Stop: RLock; if !r.stopped && r.stopC != nil; RUnlock.
Stop_Check(g) ==
  /\ tk.pc[g] = "stop"
  /\ tk.mtx = "free"
  /\ tk' = TickGoto(tk, g, IF ~tk.stopped /\ tk.stopC # "nil" THEN "lock"
                           ELSE StopReturn(g))
  /\ UNCHANGED <<pr, bo, treeVars>>

\* Stop: Lock; close(r.stopC); r.stopped = true; Unlock.  The close of a
\* closed channel panics with the lock held.
Stop_Close(g) ==
  /\ tk.pc[g] = "lock"
  /\ tk.mtx = "free"
  /\ tk' = IF tk.stopC = "closed"
           THEN [TickGoto(tk, g, StopPanic(g)) EXCEPT !.closes = @ + 1,
                                                      !.mtx = "held"]
           ELSE [TickGoto(tk, g, StopReturn(g)) EXCEPT !.closes = @ + 1,
                    !.stopC = "closed", !.stopped = TRUE]
  /\ UNCHANGED <<pr, bo, treeVars>>

NextTicker ==
  \/ tick_Run \/ start_Check \/ start_Init \/ start_Cancel \/ start_Select
  \/ start_Count \/ start_Wait \/ start_Tick \/ start_Fn \/ start_Defer
  \/ hook_Invoke
  \/ \E g \in {"body", "sig"} : Stop_Check(g) \/ Stop_Close(g)

SpecTicker == InitTicker /\ [][NextTicker]_vars

-----------------------------------------------------------------------------
(***************************************************************************)
(* probe.Run and the loop of Handler.ServeHTTP that ranges over its        *)
(* channel.  A sensor is nil, or its Run returns nil ("ok") or an error    *)
(* ("failing").  ch is unbuffered: a send completes together with the      *)
(* receive of the handler.  A status is written <<index, Status>>, the     *)
(* index of the sensor in the list standing for its Name and Mode.         *)
(***************************************************************************)
SensorKinds == {"nil", "ok", "failing"}
SensorLists == UNION {[1..n -> SensorKinds] : n \in 0..MaxSensors}

InitProbe ==
  /\ pr \in {NewProbe(l) : l \in SensorLists}
  /\ bo = NoBackoff
  /\ tk = NewRunner(0)
  /\ rootRunner = "simple"
  /\ InitTree

\* sensor.Run(ctx) of a sensor of this kind.
sensorRun(kind) == IF kind = "failing" THEN "err" ELSE "nil"

\* A status that does not depend on the error (sensitivity variant of
\* statusOf).
statusOf_Success(err) == "StatusSuccess"

\* status := StatusSuccess; if err != nil { status = StatusFailed }
statusOf(err) == IF err # "nil" THEN "StatusFailed" ELSE "StatusSuccess"

\* The process runs until a panic (send on, or close of, a closed channel).
ProbeAlive == ~pr.panicked

\* wg.Add(len(sensors))
outer_Add ==
  /\ ProbeAlive
  /\ pr.outer = "add"
  /\ pr' = [pr EXCEPT !.wg = Len(pr.sensors), !.outer = "range"]
  /\ UNCHANGED <<bo, tk, treeVars>>

\* for sensor := range slices.Values(sensors) { go func(sensor Sensor) ... }
outer_Range ==
  /\ ProbeAlive
  /\ pr.outer = "range"
  /\ pr' = IF pr.spawned < Len(pr.sensors)
           THEN [pr EXCEPT !.spawned = @ + 1, !.g[pr.spawned + 1] = "check"]
           ELSE [pr EXCEPT !.outer = "wait"]
  /\ UNCHANGED <<bo, tk, treeVars>>

\* if sensor == nil { return }, and then the deferred wg.Done().
sensor_Check(i) ==
  /\ ProbeAlive
  /\ pr.g[i] = "check"
  /\ pr' = IF pr.sensors[i] = "nil"
           THEN [pr EXCEPT !.g[i] = "exit", !.wg = @ - 1]
           ELSE [pr EXCEPT !.g[i] = "run"]
  /\ UNCHANGED <<bo, tk, treeVars>>

\* status := ...; err := sensor.Run(ctx)
sensor_Run(i) ==
  /\ ProbeAlive
  /\ pr.g[i] = "run"
  /\ pr' = [pr EXCEPT !.g[i] = "send",
                      !.status[i] = statusOf(sensorRun(pr.sensors[i]))]
  /\ UNCHANGED <<bo, tk, treeVars>>

\* ch <- SensorStatus{...}: panics when ch is closed, else completes when
\* the handler is receiving; then the deferred wg.Done().
sensor_Send(i) ==
  /\ ProbeAlive
  /\ pr.g[i] = "send"
  /\ pr.closes > 0 \/ pr.handler = "range"
  /\ pr' = IF pr.closes > 0
           THEN [pr EXCEPT !.panicked = TRUE]
           ELSE [pr EXCEPT !.g[i] = "exit", !.wg = @ - 1,
                           !.handler = "report", !.s = <<i, pr.status[i]>>]
  /\ UNCHANGED <<bo, tk, treeVars>>

\* wg.Wait()
outer_Wait ==
  /\ ProbeAlive
  /\ pr.outer = "wait"
  /\ pr.wg = 0
  /\ pr' = [pr EXCEPT !.outer = "close"]
  /\ UNCHANGED <<bo, tk, treeVars>>

\* defer close(ch)
outer_Close ==
  /\ ProbeAlive
  /\ pr.outer = "close"
  /\ pr' = IF pr.closes > 0
           THEN [pr EXCEPT !.panicked = TRUE]
           ELSE [pr EXCEPT !.closes = @ + 1, !.outer = "exit"]
  /\ UNCHANGED <<bo, tk, treeVars>>

\* The body of the handler's loop: a failed status makes the answer 503,
\* the report is appended.
handler_Report ==
  /\ ProbeAlive
  /\ pr.handler = "report"
  /\ pr' = [pr EXCEPT !.handler = "range", !.s = << >>,
                      !.reports = Append(@, pr.s),
                      !.code = IF pr.s[2] = "StatusFailed" THEN 503 ELSE @]
  /\ UNCHANGED <<bo, tk, treeVars>>

\* The range over ch ends when ch is closed.
handler_End ==
  /\ ProbeAlive
  /\ pr.handler = "range"
  /\ pr.closes > 0
  /\ pr' = [pr EXCEPT !.handler = "respond"]
  /\ UNCHANGED <<bo, tk, treeVars>>

NextProbe ==
  \/ outer_Add \/ outer_Range \/ outer_Wait \/ outer_Close
  \/ \E i \in 1..MaxSensors : sensor_Check(i) \/ sensor_Run(i) \/ sensor_Send(i)
  \/ handler_Report \/ handler_End

\* Every goroutine that can take a step eventually takes one: the sensors
\* return and the handler keeps receiving.
SpecProbe == InitProbe /\ [][NextProbe]_vars /\ WF_vars(NextProbe)

-----------------------------------------------------------------------------
(***************************************************************************)
(* The exponential backoff as the tick loop evaluates it:                  *)
(* wait(ctx, count, backoff) calls backoff.Wait(ctx, count), which is      *)
(* scalar * time.Duration(exponentBase2(attempt)), and sleeps only when    *)
(* the result is > 0.  uint is 32 or 64 bits wide depending on the build,  *)
(* time.Duration is int64.  A machine word is written as the set of the    *)
(* positions of its 1 bits, so that no value is bounded by the integers of *)
(* the model checker.                                                      *)
(***************************************************************************)
DurationBits == 64
WordSizes == {32, 64}
\* Scalars in nanoseconds: 1ns, 100ms, 200ms.
Scalars == {1, 100000000, 200000000}
Attempts == 0..MaxUint8

RECURSIVE Pow2(_)
Pow2(n) == IF n = 0 THEN 1 ELSE 2 * Pow2(n - 1)
\* The bits of a non-negative constant below 2^31.
ToBits(n) == {i \in 0..30 : (n \div Pow2(i)) % 2 = 1}

\* x << k and x >> k in a word of w bits.
Shl(x, k, w) == {i + k : i \in x} \cap (0..(w - 1))
Shr(x, k) == {i - k : i \in {j \in x : j >= k}}

\* x + y and x * y modulo 2^DurationBits.
RECURSIVE Add(_, _)
Add(x, y) ==
  IF y = {} THEN x
  ELSE Add((x \cup y) \ (x \cap y), Shl(x \cap y, 1, DurationBits))
RECURSIVE Mul(_, _)
Mul(x, y) ==
  IF y = {} THEN {}
  ELSE LET i == CHOOSE j \in y : TRUE
       IN Add(Shl(x, i, DurationBits), Mul(x, y \ {i}))

\* d > 0 for an int64 d.
Positive(d) == d # {} /\ (DurationBits - 1) \notin d

\* func exponentBase2(a uint8) uint { return (1 << a) >> 1 }
exponentBase2(a, w) == Shr(Shl({0}, a, w), 1)

InitBackoff ==
  /\ bo \in {[NoBackoff EXCEPT !.pc = "call", !.word = w, !.attempt = a,
                               !.scalar = sc] :
               w \in WordSizes, a \in Attempts, sc \in Scalars}
  /\ pr = NoProbe
  /\ tk = NewRunner(0)
  /\ rootRunner = "simple"
  /\ InitTree

\* exponentBase2(attempt)
backoff_Exponent ==
  /\ bo.pc = "call"
  /\ bo' = [bo EXCEPT !.pc = "mul", !.exp = exponentBase2(bo.attempt, bo.word)]
  /\ UNCHANGED <<pr, tk, treeVars>>

\* return scalar * time.Duration(exponentBase2(attempt))
backoff_Wait ==
  /\ bo.pc = "mul"
  /\ bo' = [bo EXCEPT !.pc = "wait", !.wait = Mul(ToBits(bo.scalar), bo.exp)]
  /\ UNCHANGED <<pr, tk, treeVars>>

\* wait(): if wait > 0 the timer is awaited, else wait returns at once.
wait_Timer ==
  /\ bo.pc = "wait"
  /\ bo' = [bo EXCEPT !.pc = IF Positive(bo.wait) THEN "slept" ELSE "skipped"]
  /\ UNCHANGED <<pr, tk, treeVars>>

NextBackoff == backoff_Exponent \/ backoff_Wait \/ wait_Timer

SpecBackoff == InitBackoff /\ [][NextBackoff]_vars

----------------------------------------------------------------------------
\* Vocabulary of the properties.

Allocated == 1..nnodes

\* The Runner body of n has been started / has returned or faulted.
BodyStarted(n) == body[n].pc # "idle"
BodyEnded(n) ==
  \/ body[n].pc \in {"recovered", "returned", "closing", "done_hooks",
                     "done_send", "exit"}
  \/ body[n].pc = "ops" /\ body[n].ip > Len(Prog(n))
BodyRunning(n) == BodyStarted(n) /\ ~BodyEnded(n)

\* The indexes (registration order, from 1) of the hooks of one event that
\* have been invoked on n, in invocation order.
IsStop(e) == e[1] = "stop"
IsDone(e) == e[1] = "done"
StopRan(n) == [i \in 1..Len(SelectSeq(node[n].ran, IsStop)) |->
                 SelectSeq(node[n].ran, IsStop)[i][2]]
DoneRan(n) == [i \in 1..Len(SelectSeq(node[n].ran, IsDone)) |->
                 SelectSeq(node[n].ran, IsDone)[i][2]]
Decreasing(seq) == \A p, q \in 1..Len(seq) : p < q => seq[p] > seq[q]

RECURSIVE IsAncestor(_, _)
IsAncestor(a, x) ==
  /\ x # NoNode
  /\ node[x].parent # NoNode
  /\ (node[x].parent = a \/ IsAncestor(a, node[x].parent))
InSubtree(x, a) == x = a \/ IsAncestor(a, x)

\* a and b are subs of the same node, a scheduled before b.
Before(a, b) ==
  \E p \in 0..nnodes : \E i, j \in 1..Len(node[p].subs) :
     i < j /\ node[p].subs[i] = a /\ node[p].subs[j] = b

\* A stop hook of x is invoked in this step.
StopHookStarts(x) ==
  /\ Len(node'[x].ran) > Len(node[x].ran)
  /\ node'[x].ran[Len(node'[x].ran)][1] = "stop"

----------------------------------------------------------------------------
\* C1: on every node the stop hooks run in reverse order of registration:
\* a stop hook registered later is invoked before one registered earlier.
C1_StopHooksLastInFirstOut == \A n \in Allocated : Decreasing(StopRan(n))

\* C2: on every node the done hooks run in reverse order of registration.
C2_DoneHooksLastInFirstOut == \A n \in Allocated : Decreasing(DoneRan(n))

\* C3: the stop cascade is depth-first and last-sibling-first: when a stop
\* hook of x is invoked, no stop hook has yet been invoked on an ancestor of
\* x, nor in the subtree of any sub scheduled before the sub whose subtree
\* holds x.  (stop() runs on one goroutine, so a hook invoked earlier has
\* returned.)
C3_StopDepthFirstLastSiblingFirst ==
  [][ \A x \in Subs : StopHookStarts(x) =>
        \A y \in Allocated :
           ( \/ IsAncestor(y, x)
             \/ \E a, b \in Allocated :
                  Before(a, b) /\ InSubtree(y, a) /\ InSubtree(x, b) )
           => StopRan(y) = << >> ]_vars

C3_Witness ==
  \E a, b, d \in Allocated :
     /\ Before(a, b) /\ node[d].parent = a
     /\ StopRan(a) # << >> /\ StopRan(b) # << >> /\ StopRan(d) # << >>

\* C4: on a node whose Run calls are all made by its own body (a sequence
\* of calls): while the body of a sub that has not called Parallel is
\* executing, the thread that scheduled it is still inside that Run call (so the Run
\* call has not returned and no later runner has been started), and a sub
\* scheduled later is started only after the earlier one has returned or
\* faulted.
C4_BlockingRunnersInOrder ==
  \A f \in 0..nnodes : \A i \in 1..Len(node[f].subs) :
     LET s == node[f].subs[i] IN
     (BodyRunning(s) /\ ~node[s].parallel /\ body[Helper].f # f) =>
        /\ body[f].pc = "run_select" /\ body[f].sub = s
        /\ \A j \in 1..Len(node[f].subs) : j > i => ~BodyStarted(node[f].subs[j])
        /\ \A j \in 1..Len(node[f].subs) : j < i =>
              (node[node[f].subs[j]].parallel \/ BodyEnded(node[f].subs[j]))

C4_Witness ==
  \E f \in 0..nnodes :
     /\ Len(node[f].subs) >= 2
     /\ \A i \in 1..Len(node[f].subs) : ~node[node[f].subs[i]].parallel
     /\ BodyEnded(node[f].subs[1])
     /\ BodyRunning(node[f].subs[2])

\* C5: after a sub has promoted itself, the Run call goes on to the next
\* runner without waiting for anything the promoted sub does before a stop:
\* a thread that is inside f.run for the next runner while a promoted sub of
\* f is still running, and no stop has been requested, is never in a state
\* in which nothing can happen until a stop is requested.
C5_RunProceedsPastPromotedSub ==
  \A f \in 0..nnodes :
     ( /\ body[f].pc \in {"run_name", "run_newf", "run_append"}
       /\ \E i \in 1..Len(node[f].subs) :
             node[node[f].subs[i]].parallel /\ BodyRunning(node[f].subs[i])
       /\ term.pc = "select" )
     => ENABLED Internal

\* C6: on a node that promoted itself and is released by one of its stop
\* hooks, a stop that found all its stop hooks registered has invoked every
\* one of them before the first done hook of the node is invoked.
C6_StopHooksThenBodyThenDoneHooks ==
  \A n \in Allocated :
     ( /\ node[n].parallel
       /\ \E i \in 1..Len(node[n].stopHooks) : node[n].stopHooks[i] = "release"
       /\ DoneRan(n) # << >>
       /\ \E i \in 1..Len(term.stack) :
             /\ term.stack[i].n = n
             /\ term.stack[i].phase \in {"hooks", "send", "join"}
             /\ term.stack[i].snap = Len(node[n].stopHooks) )
     => Len(StopRan(n)) = Len(node[n].stopHooks)

\* C7: on every node no done hook is invoked before a stop hook: in the
\* order of invocation no stop hook follows a done hook.
C7_DoneHooksAfterStopHooks ==
  \A n \in Allocated : \A p, q \in 1..Len(node[n].ran) :
     (p < q /\ node[n].ran[p][1] = "done") => node[n].ran[q][1] = "done"

\* C8: the simple example on natural completion (stop() called because done
\* was closed): the stop hook of a runner scheduled later has run before
\* that of one scheduled earlier, both before the root runner's own, the
\* process exits with status 0 after all of them (the example has no
\* finaliser that fails), and short of that exit some goroutine can always
\* take a step.
C8_SimpleNaturalCompletion ==
  (rootRunner = "simple" /\ term.cause = "done") =>
     /\ sup.exited \/ ENABLED Next
     /\ \A a, b \in Allocated :
          (Before(a, b) /\ StopRan(a) # << >>) => StopRan(b) # << >>
     /\ StopRan(1) # << >> =>
          \A a \in Allocated : StopRan(a) = << 1 >>
     /\ sup.exited =>
          /\ nnodes = MaxRuns + 1
          /\ \A a \in Allocated : StopRan(a) = << 1 >>
          /\ sup.exitCode = afterFinalisers(0, sup.finalised)

C8_Witness ==
  /\ rootRunner = "simple" /\ term.cause = "done" /\ sup.exited
  /\ nnodes >= 3 /\ \A a \in Allocated : StopRan(a) = << 1 >>

\* C9: once a stop has been requested (signal, first fault or natural
\* completion) the shutdown completes: the process is never in a state in
\* which it has not exited and no goroutine can take a step.
C9_ShutdownCompletes ==
  (term.pc # "select" /\ ~sup.crashed) => (sup.exited \/ ENABLED Next)

\* C10: when wait() on the root has resolved (Run closes done), the Runner
\* body of every node of the tree has returned or faulted.
C10_WaitCoversSubtree ==
  body[Root].pc \in {"join", "exit"} => \A n \in Allocated : BodyEnded(n)

\* The last hook invoked on n, and whether one is invoked in this step.
LastRan(n) == node[n].ran[Len(node[n].ran)]
HookStarts(n) == Len(node'[n].ran) > Len(node[n].ran)

\* Goroutine t passes the erred/done check of f.run in this step.
RunAccepted(t) == body[t].pc = "ops" /\ body'[t].pc = "run_name"

\* How often e occurs in seq.
Count(seq, e) == Cardinality({i \in 1..Len(seq) : seq[i] = e})

\* An Error call is walking up from m and has set erred on n but not yet on
\* its ancestor a.
WalkBetween(m, n, a) ==
  /\ body[m].pc = "error" /\ body[m].sub # NoNode
  /\ InSubtree(m, n) /\ InSubtree(body[m].sub, a)

----------------------------------------------------------------------------
\* C11: when the process has exited, every done hook registered on a node
\* whose Runner body returned or faulted has been invoked.
C11_DoneHooksRunBeforeExit ==
  sup.exited => \A n \in Allocated :
     BodyEnded(n) => Len(DoneRan(n)) = Len(node[n].doneHooks)

\* C12: no stop hook is ever invoked twice, and when the process has exited
\* every stop hook registered on any node has been invoked, whenever it was
\* registered.
C12_EveryStopHookOnce ==
  \A n \in Allocated :
     /\ \A p, q \in 1..Len(StopRan(n)) : p # q => StopRan(n)[p] # StopRan(n)[q]
     /\ sup.exited => Len(StopRan(n)) = Len(node[n].stopHooks)

\* C13: the name of every sub is its parent's name followed by its 1-based
\* position in the parent's subs (so no two subs of a node share a name).
C13_NameIsParentNameAndPosition ==
  \A f \in 0..nnodes : \A i \in 1..Len(node[f].subs) :
     node[node[f].subs[i]].name = Append(node[f].name, i)

C15_ErrorNoOpWhenNilOrFinished ==
  [][ \A n \in Allocated :
        ( \/ AtOp(n, "error") /\ Op(n)[2] = "nil" /\ body'[n] # body[n]
          \/ /\ HookStarts(n) /\ BodyEnded(n)
             /\ get(n, LastRan(n)'[1])[LastRan(n)'[2]] = "error" )
        => /\ \A m \in Nodes : node'[m].erred = node[m].erred
           /\ body'[n].pc \notin {"error", "recovered", "done_send"} ]_vars

\* C16: a Run call on a node that is erred, or whose own Runner body has
\* already returned or faulted, is refused (it creates no sub).
C16_NoNewSubsOnceErredOrFinished ==
  [][ \A t \in Threads : RunAccepted(t) =>
        /\ ~node[body[t].f].erred
        /\ body[t].f # Root => ~BodyEnded(body[t].f) ]_vars

\* C17: after a Runner body has faulted (f.Error or a panic), no Run call on
\* the faulting node or on any of its ancestors is accepted.
C17_FaultStopsSchedulingInChain ==
  [][ \A t \in Threads : RunAccepted(t) =>
        \A n \in Allocated : node[n].faulted => body[t].f \notin chain(n) ]_vars

\* C18: the RuntimeError of a faulted body is handed to the node's errC
\* before its signalC is closed, is never sent on a closed channel on its way
\* up, is logged at most once, and has been logged when the process has
\* exited.
C18_RuntimeErrorReachesLogOnce ==
  \A n \in Allocated :
     /\ (node[n].faulted /\ node[n].signalC) => body[n].pc # "recovered"
     /\ ~(sup.crashed /\ sup.panic[1] = <<"RuntimeError", n>>)
     /\ Count(sup.logged, <<"RuntimeError", n>>) <= 1
     /\ (sup.exited /\ node[n].faulted) =>
           Count(sup.logged, <<"RuntimeError", n>>) = 1

\* C19: a hook that panics does not take the process down: its CleanupError
\* is never what an unrecovered panic is raised for (so the hooks after it,
\* and those of other nodes, still run).
C19_HookFaultsIsolated ==
  \A n \in Allocated : ~(sup.crashed /\ sup.panic = << <<"CleanupError", n>>, n >>)

\* C20: nothing is ever sent on an errC that has been closed.
C20_NoSendOnClosedErrC ==
  ~(sup.crashed /\ sup.panic[1] # << >> /\ sup.panic[1][1] # "close")

----------------------------------------------------------------------------
\* An unrecovered panic raised by the close of the closed channel c.
ClosedTwice(c) ==
  /\ sup.crashed
  /\ sup.panic[1] # << >>
  /\ sup.panic[1][1] = "close"
  /\ sup.panic[1][2] = c

\* main is past the close(f.signalC) of the root's wait().
RootWaitClosed ==
  \/ body[Root].pc \in {"join", "exit"}
  \/ Waiting("signal") /\ Len(waitStack) = 1

\* The frames of stop() calls on n that the signal goroutine is inside of.
StopFrames(n) == {i \in 1..Len(term.stack) : term.stack[i].n = n}

\* C21: no channel of a node is closed twice: signalC and errC are never
\* closed when already closed; signalC of a sub is closed exactly when its
\* wrapper has passed the close, which is after the Runner body returned or
\* faulted; signalC of the root is closed exactly when main has passed the
\* close in wait().
C21_OneShotSignalsFiredOnce ==
  /\ ~ClosedTwice("signalC")
  /\ ~ClosedTwice("errC")
  /\ \A n \in Allocated :
       /\ node[n].signalC <=> body[n].pc \in {"done_hooks", "done_send", "exit"}
       /\ node[n].signalC => BodyEnded(n)
  /\ node[Root].signalC <=> RootWaitClosed

C21_Witness ==
  /\ sup.exited /\ nnodes >= 2
  /\ \A n \in 0..nnodes : node[n].signalC /\ node[n].errC

\* C22: a Parallel call leaves the node parallel with parallelC closed,
\* never closes parallelC when it is already closed, and changes nothing
\* of the node when the node is parallel already, whether the calls follow
\* each other on the body or come from two goroutines.
C22_ParallelIdempotent ==
  /\ [](~ClosedTwice("parallelC"))
  /\ [](\A n \in 0..nnodes : node[n].parallelC <=> node[n].parallel)
  /\ [][ \A t \in Threads :
           (body[t].pc = "parallel" /\ body'[t].pc # "parallel") =>
              /\ node'[body[t].f].parallel /\ node'[body[t].f].parallelC
              /\ node[body[t].f].parallel =>
                   node' = [node EXCEPT ![body[t].f].wpend = FALSE] ]_vars

C22_Witness ==
  /\ rootRunner = "eager" /\ nnodes = 1 /\ node[1].parallelC
  /\ body[1].pc = "ops" /\ body[1].ip = 4
  /\ body[Helper].pc = "ops" /\ body[Helper].ip = 2

\* C23: errd is closed when the first fault is received from the root's
\* errC and never again; the exit code becomes 1 in that step; every fault
\* received is logged; the reader goes on until the root's errC is closed.
C23_TriggerFiredOnceOnFirstFault ==
  /\ [](~ClosedTwice("errd"))
  /\ [](sup.errd <=> sup.logged # << >>)
  /\ [](~sup.exited => (sup.exitCode = 1 <=> sup.logged # << >>))
  /\ [](sup.errlog = "exit" => node[Root].errC)
  /\ [][ /\ sup.errd => sup'.errd
         /\ Len(sup'.logged) >= Len(sup.logged) ]_vars

C23_Witness == sup.exited /\ Len(sup.logged) >= 2

\* C24: the status given to os.Exit is 0 exactly when no fault was received
\* from the root's errC and no finaliser returned an error; os.Exit is
\* reached only after both goroutines of Run have returned, the reader
\* after the root's errC was closed.
C24_ExitStatusReflectsFaults ==
  sup.exited =>
     /\ sup.exitCode = 0 <=>
          ( /\ sup.logged = << >>
            /\ \A i \in 1..Len(sup.finalised) : sup.finalised[i] # "err" )
     /\ sup.exitCode \in {0, 1}
     /\ term.pc = "exit" /\ sup.errlog = "exit" /\ node[Root].errC

C24_Witness ==
  sup.exited /\ sup.logged # << >> /\ sup.finalised = <<"nil">> /\ sup.exitCode = 1

\* C25: stop() of the root is started by the signal goroutine's select and
\* by nothing else, at most once, whichever of done, errd and the signal
\* was selected; when the process exits that one call has returned.
C25_RootStoppedExactlyOnce ==
  /\ [][ (term.stack = << >> /\ term'.stack # << >>) =>
           /\ term.pc = "select" /\ term.cause = ""
           /\ term'.stack = << Frame(Root) >> ]_vars
  /\ [](Cardinality(StopFrames(Root)) <= 1)
  /\ [](sup.exited => /\ term.pc = "exit" /\ node[Root].done
                      /\ term.cause \in {"done", "errd", "signal"})

C25_Witness ==
  sup.exited /\ term.cause = "signal" /\ sup.errd /\ sup.done /\ node[Root].done

\* C26: in stop() of a node, a stop hook of the node is invoked only after
\* stopped was stored and the stop() of every sub the loop visited has
\* marked that sub done; errC is closed only after all the stop hooks taken
\* have run and signalC was closed (for a sub: its Runner body has returned
\* or faulted); done is stored only after errC was closed and the
\* forwarding goroutine has returned.  So errC is never closed while the
\* body is executing.
C26_StopStepsInOrder ==
  /\ [][ \A n \in 0..nnodes :
           /\ StopHookStarts(n) =>
                /\ node[n].stopped
                /\ \A i \in 1..Len(node[n].subs) :
                      i < Top(term.stack).i => node[node[n].subs[i]].done
           /\ (node'[n].errC /\ ~node[n].errC) =>
                /\ node[n].stopped /\ node[n].signalC /\ ~node[n].done
                /\ n # Root => BodyEnded(n)
                /\ Len(StopRan(n)) = Top(term.stack).snap
           /\ (node'[n].done /\ ~node[n].done) =>
                /\ node[n].errC
                /\ n # Root => fwd[n].pc = "exit" ]_vars
  /\ [](\A n \in Allocated : node[n].errC => BodyEnded(n))

C26_Witness ==
  \E n \in Allocated :
     /\ node[n].done /\ node[n].subs # << >> /\ StopRan(n) # << >>
     /\ \A i \in 1..Len(node[n].subs) : node[node[n].subs[i]].done

\* C27: over all the Stop calls on one ticker Runner (stop hook, tick
\* function, deferred Stop) close(r.stopC) is executed at most once.
C27_StopClosesAtMostOnce == tk.closes <= 1

\* C28: with WithUntil(n), n > 0, the tick function is executed at most n
\* times.
C28_WithUntilBoundsTicks == tk.maxRunCount > 0 => tk.ticks <= tk.maxRunCount

\* C29: once the stop cascade is under way below the health runner (the
\* stop() of one of its subs has returned; the sub appended last is stopped
\* first) and until the HTTP server (its first sub) has been shut down,
\* available is false.
C29_UnavailableDuringShutdown ==
  \A h \in Allocated :
     ( /\ node[h].prog = "health" /\ node[h].stopped
       /\ \E i \in 2..Len(node[h].subs) : node[node[h].subs[i]].done
       /\ ~node[node[h].subs[1]].released )
     => ~available

\* C30: a Run call on a node whose stopped flag is set is refused.
C30_NoRunOnceStopped ==
  [][ \A t \in Threads : RunAccepted(t) => ~node[body[t].f].stopped ]_vars

\* C31: when the root's stop() has returned, every node ever added to the
\* tree is torn down: stopped and done are set, errC is closed, its
\* forwarding goroutine has returned and its body is not executing.
C31_AllNodesTornDown ==
  term.pc = "exit" =>
     \A n \in Allocated \ {Root} :
        /\ node[n].stopped /\ node[n].done /\ node[n].errC
        /\ fwd[n].pc = "exit"
        /\ ~BodyRunning(n)

\* C32: when Run returns for a sub that was not promoted with Parallel, all
\* the done hooks registered on the sub have been invoked.
C32_DoneHooksBeforeRunReturns ==
  [][ \A t \in Threads :
        ( /\ body[t].pc = "run_select" /\ body'[t].pc # "run_select"
          /\ ~node[body[t].sub].parallel )
        => Len(DoneRan(body[t].sub)) = Len(node[body[t].sub].doneHooks) ]_vars

\* C33: on a ticker handle On().Stop and On().Done each register their
\* callbacks on the node exactly once, independently of each other: once
\* the tick function has called a method its callback is registered, and
\* no callback is registered twice.
C33_StopAndDoneRegisterIndependently ==
  /\ tk.stopFns = (IF "Stop" \in tk.called THEN 1 ELSE 0)
  /\ tk.doneFns = (IF "Done" \in tk.called THEN 1 ELSE 0)

\* The statuses sent on the channel so far (received by the handler).
Delivered == IF pr.s = << >> THEN pr.reports ELSE Append(pr.reports, pr.s)
NonNil == {i \in 1..Len(pr.sensors) : pr.sensors[i] # "nil"}

\* C34: probe.Run delivers at most one status per sensor, none for a nil
\* sensor, StatusFailed exactly for a sensor whose Run returned an error;
\* the channel is closed at most once and only after every non-nil sensor's
\* status was delivered, nothing is sent on the closed channel; and, the
\* handler receiving, the channel is closed and the range ends.
C34_OneStatusPerSensorThenClose ==
  /\ [](/\ pr.closes <= 1 /\ ~pr.panicked
        /\ \A p, q \in 1..Len(Delivered) :
              Delivered[p][1] = Delivered[q][1] => p = q
        /\ \A p \in 1..Len(Delivered) :
              /\ Delivered[p][1] \in NonNil
              /\ Delivered[p][2] = "StatusFailed"
                   <=> pr.sensors[Delivered[p][1]] = "failing"
        /\ pr.closes = 1 =>
              NonNil = {Delivered[p][1] : p \in 1..Len(Delivered)})
  /\ <>[](/\ pr.closes = 1 /\ pr.handler = "respond"
          /\ Len(pr.reports) = Cardinality(NonNil))

C34_Witness ==
  /\ pr.closes = 1 /\ pr.handler = "respond"
  /\ Len(pr.reports) >= 2 /\ pr.code = 503
  /\ \E i, j, k \in 1..Len(pr.sensors) :
        /\ pr.sensors[i] = "nil" /\ pr.sensors[j] = "failing"
        /\ pr.sensors[k] = "ok"

\* C35: for every uint8 attempt a, exponentBase2(a) is 2^(a-1) when a >= 1
\* and 0 when a = 0, and the exponential wait is scalar * 2^(a-1), which is
\* strictly positive for a >= 1 (the scalars are positive).
C35_ExponentIsPowerOfTwo ==
  /\ bo.pc \in {"mul", "wait", "slept", "skipped"} =>
       bo.exp = (IF bo.attempt = 0 THEN {} ELSE {bo.attempt - 1})
  /\ (bo.pc \in {"wait", "slept", "skipped"} /\ bo.attempt >= 1) =>
       /\ bo.wait = {i + bo.attempt - 1 : i \in ToBits(bo.scalar)}
       /\ Positive(bo.wait)
  /\ bo.pc = "skipped" => bo.attempt = 0

====
